---------------------------- MODULE Spec2Model ----------------------------
(***************************************************************************)
(* A model of POV-Ray's raw tokenizer (source/parser/rawtokenizer.cpp):    *)
(* the known-word registry and identifier counter, the classification of   *)
(* word / float / string / symbol lexemes, the string-literal escape       *)
(* decoder, and the bookmark passthroughs to the scanner.                  *)
(*                                                                         *)
(* Texts are sequences of byte values (0..255).  Positions in a text are   *)
(* 1-based indices; an iterator text.cbegin() + k is the index k + 1.      *)
(***************************************************************************)
EXTENDS Integers, Sequences, FiniteSets, TLC

(***************************************************************************)
(* Bounds of the model.                                                    *)
(***************************************************************************)
\* Longest scanner input (number of lexemes) of the tokenizer specification.
MaxInput == 2
\* Most pieces a string-literal payload is assembled from.
MaxPieces == 2
\* Longest symbol text given to ProcessOtherLexeme.
MaxSymbolLen == 2

(***************************************************************************)
(* Characters.                                                             *)
(***************************************************************************)
\* The printable ASCII characters, 0x20 .. 0x7E, in code order (the back quote,
\* 0x60, is spelled by name).
Printable ==
    << " ", "!", "\"", "#", "$", "%", "&", "'",
       "(", ")", "*", "+", ",", "-", ".", "/",
       "0", "1", "2", "3", "4", "5", "6", "7",
       "8", "9", ":", ";", "<", "=", ">", "?",
       "@", "A", "B", "C", "D", "E", "F", "G",
       "H", "I", "J", "K", "L", "M", "N", "O",
       "P", "Q", "R", "S", "T", "U", "V", "W",
       "X", "Y", "Z", "[", "\\", "]", "^", "_",
       "BACKQUOTE", "a", "b", "c", "d", "e", "f", "g",
       "h", "i", "j", "k", "l", "m", "n", "o",
       "p", "q", "r", "s", "t", "u", "v", "w",
       "x", "y", "z", "{", "|", "}", "~" >>

\* The byte value of a printable ASCII character.
Ord(ch) == 31 + (CHOOSE k \in 1..Len(Printable) : Printable[k] = ch)

\* The text (byte sequence) spelled by a sequence of characters.
Str(chars) == [k \in 1..Len(chars) |-> Ord(chars[k])]

\* isalpha() in the "C" locale.
IsAlpha(c) == (c >= Ord("A") /\ c <= Ord("Z")) \/ (c >= Ord("a") /\ c <= Ord("z"))

\* strchr(s, ch) != nullptr
Contains(s, c) == \E k \in 1..Len(s) : s[k] = c

Pow2(n) == 2 ^ n

(***************************************************************************)
(* Token ids (the TokenId enumeration, values in declaration order from 0: *)
(* the float-function band, the vector-function band, the colour-key band, *)
(* then every other token, TOKEN_COUNT last).                              *)
(***************************************************************************)
TokenNames ==
    << "ABS_TOKEN", "FLOAT_TOKEN", "FLOAT_FUNCT_TOKEN",
       "VCROSS_TOKEN", "VECTOR_FUNCT_TOKEN",
       "RGB_TOKEN", "COLOUR_KEY_TOKEN",
       "AMPERSAND_TOKEN", "AT_TOKEN", "BACK_QUOTE_TOKEN", "BACK_SLASH_TOKEN",
       "BAR_TOKEN", "BOX_TOKEN", "COLON_TOKEN", "COMMA_TOKEN", "DASH_TOKEN",
       "DOLLAR_TOKEN", "END_OF_FILE_TOKEN", "EQUALS_TOKEN", "EXCLAMATION_TOKEN",
       "HASH_TOKEN", "HAT_TOKEN", "IDENTIFIER_TOKEN", "LEFT_ANGLE_TOKEN",
       "LEFT_CURLY_TOKEN", "LEFT_PAREN_TOKEN", "LEFT_SQUARE_TOKEN",
       "PERCENT_TOKEN", "PERIOD_TOKEN", "PLUS_TOKEN", "QUESTION_TOKEN",
       "REL_GE_TOKEN", "REL_LE_TOKEN", "REL_NE_TOKEN", "RIGHT_ANGLE_TOKEN",
       "RIGHT_CURLY_TOKEN", "RIGHT_PAREN_TOKEN", "RIGHT_SQUARE_TOKEN",
       "SEMI_COLON_TOKEN", "SINGLE_QUOTE_TOKEN", "SLASH_TOKEN", "STAR_TOKEN",
       "STRING_LITERAL_TOKEN", "TILDE_TOKEN", "TOKEN_COUNT" >>

Tok(name) == (CHOOSE k \in 1..Len(TokenNames) : TokenNames[k] = name) - 1

TOKEN_COUNT == Tok("TOKEN_COUNT")
NOT_A_TOKEN == -1
FLOAT_TOKEN == Tok("FLOAT_TOKEN")
FLOAT_FUNCT_TOKEN == Tok("FLOAT_FUNCT_TOKEN")
VECTOR_FUNCT_TOKEN == Tok("VECTOR_FUNCT_TOKEN")
COLOUR_KEY_TOKEN == Tok("COLOUR_KEY_TOKEN")
IDENTIFIER_TOKEN == Tok("IDENTIFIER_TOKEN")
STRING_LITERAL_TOKEN == Tok("STRING_LITERAL_TOKEN")
HASH_TOKEN == Tok("HASH_TOKEN")

\* The reserved-word table: (Token_Number, Token_Name) pairs in table order.
Reserved_Words ==
    << [Token_Name |-> Str(<<"a","b","s">>), Token_Number |-> Tok("ABS_TOKEN")],
       [Token_Name |-> Str(<<"&">>), Token_Number |-> Tok("AMPERSAND_TOKEN")],
       [Token_Name |-> Str(<<"b","o","x">>), Token_Number |-> Tok("BOX_TOKEN")],
       [Token_Name |-> Str(<<"E","n","d"," ","o","f"," ","F","i","l","e">>),
        Token_Number |-> Tok("END_OF_FILE_TOKEN")],
       [Token_Name |-> Str(<<"f","l","o","a","t"," ","c","o","n","s","t","a","n","t">>),
        Token_Number |-> FLOAT_TOKEN],
       [Token_Name |-> Str(<<"#">>), Token_Number |-> HASH_TOKEN],
       [Token_Name |-> Str(<<"r","g","b">>), Token_Number |-> Tok("RGB_TOKEN")],
       [Token_Name |-> Str(<<"v","c","r","o","s","s">>), Token_Number |-> Tok("VCROSS_TOKEN")] >>

(***************************************************************************)
(* Pure helpers of the tokenizer.                                          *)
(***************************************************************************)
\* HexDigitToInt: the value of a hex digit, -1 for any other character.
HexDigitToInt(c) ==
    IF c >= Ord("0") /\ c <= Ord("9") THEN c - Ord("0")
    ELSE IF c >= Ord("A") /\ c <= Ord("F") THEN c - Ord("A") + 10
    ELSE IF c >= Ord("a") /\ c <= Ord("f") THEN c - Ord("a") + 10
    ELSE -1

\* The number spelled by a sequence of hex digits.
HexValue(digits) ==
    LET RECURSIVE Acc(_, _)
        Acc(k, v) == IF k > Len(digits) THEN v
                     ELSE Acc(k + 1, v * 16 + HexDigitToInt(Ord(digits[k])))
    IN Acc(1, 0)

\* 0x10FFFF, 0xD800 and 0xDFFF.
MaxScalarValue == HexValue(<<"1","0","F","F","F","F">>)
SurrogateFirst == HexValue(<<"D","8","0","0">>)
SurrogateLast == HexValue(<<"D","F","F","F">>)

\* A faulty variant of IsUCS4ScalarValue: surrogates pass.
IsUCS4ScalarValue_Surrogates(c) == c <= MaxScalarValue

\* IsUCS4ScalarValue
IsUCS4ScalarValue(c) ==
    c <= MaxScalarValue /\ (c < SurrogateFirst \/ c > SurrogateLast)

\* RawTokenizer::GetExpressionId: the banding of the id space.
GetExpressionId(tokenId) ==
    IF tokenId <= FLOAT_FUNCT_TOKEN THEN FLOAT_FUNCT_TOKEN
    ELSE IF tokenId <= VECTOR_FUNCT_TOKEN THEN VECTOR_FUNCT_TOKEN
    ELSE IF tokenId <= COLOUR_KEY_TOKEN THEN COLOUR_KEY_TOKEN
    ELSE tokenId

\* RawToken::GetTokenId
GetTokenId(id) == IF id <= TOKEN_COUNT THEN id ELSE IDENTIFIER_TOKEN

\* A faulty variant of UCS2: the value is not narrowed.
UCS2_Wide(c) == c

\* UCS2(c): the narrowing of a 32-bit scalar value to a 16-bit code unit.
UCS2(c) == c % Pow2(16)

(***************************************************************************)
(* Lexemes and tokens.                                                     *)
(***************************************************************************)
kWord == "kWord"
kFloatLiteral == "kFloatLiteral"
kStringLiteral == "kStringLiteral"
kOther == "kOther"

\* An absent value (token.value == nullptr), and a floatValue never written.
Null == "null"

Lexeme(category, text, position) ==
    [category |-> category, text |-> text, position |-> position]

QUOTE == Ord("\"")
BACKSLASH == Ord("\\")

(***************************************************************************)
(* The escape decoder.                                                     *)
(***************************************************************************)
\* pov_base::UCS::kReplacementCharacter, U+FFFD
kReplacementCharacter == HexValue(<<"F","F","F","D">>)

\* pov_base::UCS::DecodeUTF8Sequence(c, i, end): decodes the multi-byte
\* sequence starting at i and moves i past it; on a malformed, truncated or
\* overlong sequence it fails, having moved i past the lead byte.
DecodeUTF8Sequence(text, i, end) ==
    LET b0 == text[i]
        n == IF b0 >= 194 /\ b0 <= 223 THEN 2
             ELSE IF b0 >= 224 /\ b0 <= 239 THEN 3
             ELSE IF b0 >= 240 /\ b0 <= 244 THEN 4
             ELSE 0
        IsCont(k) == text[k] >= 128 /\ text[k] <= 191
        wellFormed == /\ n > 0
                      /\ end - i >= n
                      /\ \A k \in (i + 1)..(i + n - 1) : IsCont(k)
        RECURSIVE Acc(_, _)
        Acc(k, v) == IF k > i + n - 1 THEN v ELSE Acc(k + 1, v * 64 + (text[k] % 64))
        lead == IF n = 2 THEN b0 % 32 ELSE IF n = 3 THEN b0 % 16 ELSE b0 % 8
        value == Acc(i + 1, lead)
        least == IF n = 2 THEN 128 ELSE IF n = 3 THEN 2048 ELSE 65536
    IN IF wellFormed /\ value >= least /\ IsUCS4ScalarValue(value)
       THEN [ok |-> TRUE, c |-> value, i |-> i + n]
       ELSE [ok |-> FALSE, c |-> 0, i |-> i + 1]

\* The digit loop of ProcessUCSEscapeDigits: i runs up to escapeSequenceEnd,
\* stopping at the first character that is no hex digit.  c is a 32-bit
\* unsigned value, so c << 4 drops its four high bits.
RECURSIVE UCSDigitLoop(_, _, _, _)
UCSDigitLoop(text, c, i, escapeSequenceEnd) ==
    IF i = escapeSequenceEnd
    THEN [ok |-> IsUCS4ScalarValue(c), c |-> c, i |-> i,
          escapeSequenceEnd |-> escapeSequenceEnd]
    ELSE LET hexDigit == HexDigitToInt(text[i])
         IN IF hexDigit < 0
            THEN [ok |-> FALSE, c |-> c, i |-> i,
                  escapeSequenceEnd |-> escapeSequenceEnd]
            ELSE UCSDigitLoop(text, (c % Pow2(28)) * 16 + hexDigit, i + 1,
                              escapeSequenceEnd)

\* A faulty variant of EnoughDigits: one character too few passes.
EnoughDigits_OneShort(i, escapeSequenceEnd, digits) ==
    ~((escapeSequenceEnd - i) < digits - 1)

\* Whether enough characters remain for the digits of a UCS escape.
EnoughDigits(i, escapeSequenceEnd, digits) == ~((escapeSequenceEnd - i) < digits)

\* A faulty variant of ProcessUCSEscapeDigits: escapeSequenceEnd is set
\* before the remaining length is tested.
ProcessUCSEscapeDigits_EarlyEnd(text, i, escapeSequenceEnd, digits) ==
    IF ~EnoughDigits(i, escapeSequenceEnd, digits)
    THEN [ok |-> FALSE, c |-> 0, i |-> i, escapeSequenceEnd |-> i + digits]
    ELSE UCSDigitLoop(text, 0, i, i + digits)

\* RawTokenizer::ProcessUCSEscapeDigits(c, i, escapeSequenceEnd, digits):
\* the result, with the values i and escapeSequenceEnd are left at.
ProcessUCSEscapeDigits(text, i, escapeSequenceEnd, digits) ==
    IF ~EnoughDigits(i, escapeSequenceEnd, digits)
    THEN [ok |-> FALSE, c |-> 0, i |-> i, escapeSequenceEnd |-> escapeSequenceEnd]
    ELSE UCSDigitLoop(text, 0, i, i + digits)

\* A faulty variant of SimpleEscape: \n yields CR and \r yields LF.
SimpleEscape_Swapped(ch) ==
    CASE ch = Ord("a") -> 7
      [] ch = Ord("b") -> 8
      [] ch = Ord("t") -> 9
      [] ch = Ord("n") -> 13
      [] ch = Ord("v") -> 11
      [] ch = Ord("f") -> 12
      [] ch = Ord("r") -> 10
      [] ch = Ord("'") -> ch
      [] ch = QUOTE -> ch
      [] ch = BACKSLASH -> ch
      [] OTHER -> -1

\* The code unit of a two-character escape, by its letter; -1 for a letter
\* that starts no two-character escape.
SimpleEscape(ch) ==
    CASE ch = Ord("a") -> 7
      [] ch = Ord("b") -> 8
      [] ch = Ord("t") -> 9
      [] ch = Ord("n") -> 10
      [] ch = Ord("v") -> 11
      [] ch = Ord("f") -> 12
      [] ch = Ord("r") -> 13
      [] ch = Ord("'") -> ch
      [] ch = QUOTE -> ch
      [] ch = BACKSLASH -> ch
      [] OTHER -> -1

\* The digit count of a UCS escape, by its letter; 0 for any other letter.
UCSEscapeDigits(ch) ==
    CASE ch = Ord("U") -> 6
      [] ch = Ord("u") -> 4
      [] OTHER -> 0

\* What an iteration makes of a UCS escape that began at i, given the result
\* r of ProcessUCSEscapeDigits.
UCSEscapeResult(i, r) ==
    [ok |-> r.ok, c |-> r.c, i |-> r.i,
     escapeSequenceBegin |-> i, escapeSequenceEnd |-> r.escapeSequenceEnd]

\* What an iteration makes of a multi-byte sequence that began at i, given
\* the result r of DecodeUTF8Sequence.
UTF8Result(i, r) ==
    [ok |-> TRUE, c |-> IF r.ok THEN r.c ELSE kReplacementCharacter, i |-> r.i,
     escapeSequenceBegin |-> i, escapeSequenceEnd |-> i]

\* A faulty variant of DecodeIteration: a plain character is decoded without
\* moving the cursor.
DecodeIteration_Stuck(text, i, payloadEnd) ==
    IF text[i] = BACKSLASH
    THEN IF payloadEnd - i < 2
         THEN [ok |-> FALSE, c |-> 0, i |-> i,
               escapeSequenceBegin |-> i, escapeSequenceEnd |-> payloadEnd]
         ELSE IF SimpleEscape(text[i + 1]) >= 0
         THEN [ok |-> TRUE, c |-> SimpleEscape(text[i + 1]), i |-> i + 2,
               escapeSequenceBegin |-> i, escapeSequenceEnd |-> i + 2]
         ELSE IF UCSEscapeDigits(text[i + 1]) > 0
         THEN UCSEscapeResult(i, ProcessUCSEscapeDigits(text, i + 2, payloadEnd,
                                                        UCSEscapeDigits(text[i + 1])))
         ELSE [ok |-> FALSE, c |-> 0, i |-> i + 1,
               escapeSequenceBegin |-> i, escapeSequenceEnd |-> i + 2]
    ELSE IF text[i] <= 127
    THEN [ok |-> TRUE, c |-> text[i], i |-> i,
          escapeSequenceBegin |-> i, escapeSequenceEnd |-> i]
    ELSE UTF8Result(i, DecodeUTF8Sequence(text, i, payloadEnd))

\* One iteration of the decoding loop of ProcessStringLiteralLexeme, with the
\* cursor at i (i # payloadEnd): either a scalar value c is decoded and the
\* cursor moves on, or the escape is rejected with the span
\* [escapeSequenceBegin, escapeSequenceEnd) given to the exception.
DecodeIteration(text, i, payloadEnd) ==
    IF text[i] = BACKSLASH
    THEN IF payloadEnd - i < 2
         THEN [ok |-> FALSE, c |-> 0, i |-> i,
               escapeSequenceBegin |-> i, escapeSequenceEnd |-> payloadEnd]
         ELSE IF SimpleEscape(text[i + 1]) >= 0
         THEN [ok |-> TRUE, c |-> SimpleEscape(text[i + 1]), i |-> i + 2,
               escapeSequenceBegin |-> i, escapeSequenceEnd |-> i + 2]
         ELSE IF UCSEscapeDigits(text[i + 1]) > 0
         THEN UCSEscapeResult(i, ProcessUCSEscapeDigits(text, i + 2, payloadEnd,
                                                        UCSEscapeDigits(text[i + 1])))
         ELSE [ok |-> FALSE, c |-> 0, i |-> i + 1,
               escapeSequenceBegin |-> i, escapeSequenceEnd |-> i + 2]
    ELSE IF text[i] <= 127
    THEN [ok |-> TRUE, c |-> text[i], i |-> i + 1,
          escapeSequenceBegin |-> i, escapeSequenceEnd |-> i]
    ELSE UTF8Result(i, DecodeUTF8Sequence(text, i, payloadEnd))

\* The whole decoding loop from cursor i with the code units decoded so far;
\* DecodeNext continues it after an iteration with result r.
RECURSIVE DecodeLoop(_, _, _, _)
RECURSIVE DecodeNext(_, _, _, _)
DecodeLoop(text, i, payloadEnd, data) ==
    IF i = payloadEnd
    THEN [ok |-> TRUE, data |-> data, i |-> i,
          escapeSequenceBegin |-> i, escapeSequenceEnd |-> i]
    ELSE DecodeNext(text, payloadEnd, data, DecodeIteration(text, i, payloadEnd))

DecodeNext(text, payloadEnd, data, r) ==
    IF r.ok
    THEN DecodeLoop(text, r.i, payloadEnd, Append(data, UCS2(r.c)))
    ELSE [ok |-> FALSE, data |-> data, i |-> r.i,
          escapeSequenceBegin |-> r.escapeSequenceBegin,
          escapeSequenceEnd |-> r.escapeSequenceEnd]

\* The indices of the text the digit loop of ProcessUCSEscapeDigits reads
\* (HexDigitToInt(*i)), given the result r it ends with: every index from i on
\* up to the one it stops at, the end of the digits excluded.
DigitLoopReads(i, digits, r) == {k \in i..(i + digits - 1) : k <= r.i}

\* The indices ProcessUCSEscapeDigits reads.
DigitReads(text, i, escapeSequenceEnd, digits) ==
    IF ~EnoughDigits(i, escapeSequenceEnd, digits) THEN {}
    ELSE DigitLoopReads(i, digits, UCSDigitLoop(text, 0, i, i + digits))

\* The indices of the text an iteration of the decoding loop reads itself:
\* *i, the character after a backslash, and the digits of a UCS escape.
IterationReads(text, i, payloadEnd) ==
    {i} \cup
    (IF text[i] = BACKSLASH /\ ~(payloadEnd - i < 2)
     THEN {i + 1} \cup
          (IF SimpleEscape(text[i + 1]) < 0 /\ UCSEscapeDigits(text[i + 1]) > 0
           THEN DigitReads(text, i + 2, payloadEnd, UCSEscapeDigits(text[i + 1]))
           ELSE {})
     ELSE {})

(***************************************************************************)
(* The known-word registry: a map from word texts to (id, expressionId).   *)
(***************************************************************************)
\* KnownWordInfo::KnownWordInfo(): the entry operator[] creates for a new key.
KnownWordInfo == [id |-> NOT_A_TOKEN, expressionId |-> NOT_A_TOKEN]

\* A faulty variant of Lookup: every word is taken for unregistered.
Lookup_Default(known, text) == KnownWordInfo

\* mKnownWords[text], read: the entry of text, a default one if it has none.
Lookup(known, text) == IF text \in DOMAIN known THEN known[text] ELSE KnownWordInfo

\* mKnownWords[text] = info
Store(known, text, info) ==
    [t \in (DOMAIN known) \cup {text} |-> IF t = text THEN info ELSE known[t]]

\* Whether the constructor skips a reserved-word table entry.
SkipsEntry(name) == ~IsAlpha(name[1]) \/ Contains(name, Ord(" "))

\* A faulty variant of SeedInfo: the expressionId is not banded.
SeedInfo_Unbanded(number) == [id |-> number, expressionId |-> number]

\* The entry the constructor stores for a reserved word.
SeedInfo(number) == [id |-> number, expressionId |-> GetExpressionId(number)]

\* RawTokenizer::RawTokenizer(): the registry after the first k table entries.
RECURSIVE SeedKnownWords(_)
SeedKnownWords(k) ==
    IF k = 0 THEN << >>
    ELSE LET e == Reserved_Words[k]
             known == SeedKnownWords(k - 1)
         IN IF SkipsEntry(e.Token_Name) THEN known
            ELSE Store(known, e.Token_Name, SeedInfo(e.Token_Number))

\* The registry and the identifier counter a constructed tokenizer holds.
InitialKnownWords == SeedKnownWords(Len(Reserved_Words))
InitialNextIdentifierId == TOKEN_COUNT + 1

(***************************************************************************)
(* The lexeme classifier.  Each Process...Lexeme operator gives the        *)
(* outcome of the C++ function: out is "true" or "false" (its return       *)
(* value), "assert" (a POV_PARSER_ASSERT failed in a build that checks     *)
(* them) or the name of the exception thrown; token, known and next are    *)
(* the token, mKnownWords and mNextIdentifierId it leaves; span is the     *)
(* range of the lexeme text given to InvalidEscapeSequenceException.       *)
(***************************************************************************)
NoSpan == [begin |-> 0, end |-> 0]

Outcome(out, token, known, next, span) ==
    [out |-> out, token |-> token, known |-> known, next |-> next, span |-> span]

\* A faulty variant of IsNewWord: a known identifier is taken for new again.
IsNewWord_Identifiers(info) == info.id = NOT_A_TOKEN \/ info.id > TOKEN_COUNT

\* Whether ProcessWordLexeme takes the word for a new identifier.
IsNewWord(info) == info.id = NOT_A_TOKEN

\* A faulty variant of NewIdentifierId: the counter is never advanced.
NewIdentifierId_Stuck(next) == next

\* The id ProcessWordLexeme gives a new identifier: ++mNextIdentifierId.
NewIdentifierId(next) == next + 1

\* A faulty variant of ProcessWordLexeme: a new word is given an id but its
\* expressionId is left at the default.
ProcessWordLexeme_NoClass(token, known, next, asserts) ==
    IF asserts /\ (token.lexeme.category # kWord \/ Len(token.lexeme.text) = 0)
    THEN Outcome("assert", token, known, next, NoSpan)
    ELSE LET text == token.lexeme.text
             i == Lookup(known, text)
             new == IsNewWord(i)
             info == IF new
                     THEN [id |-> NewIdentifierId(next), expressionId |-> i.expressionId]
                     ELSE i
             next1 == IF new THEN NewIdentifierId(next) ELSE next
         IN Outcome("true",
                    [token EXCEPT !.id = info.id, !.expressionId = info.expressionId,
                                  !.value = Null],
                    Store(known, text, info), next1, NoSpan)

\* RawTokenizer::ProcessWordLexeme
ProcessWordLexeme(token, known, next, asserts) ==
    IF asserts /\ (token.lexeme.category # kWord \/ Len(token.lexeme.text) = 0)
    THEN Outcome("assert", token, known, next, NoSpan)
    ELSE LET text == token.lexeme.text
             i == Lookup(known, text)
             new == IsNewWord(i)
             info == IF new
                     THEN [id |-> NewIdentifierId(next), expressionId |-> IDENTIFIER_TOKEN]
                     ELSE i
             next1 == IF new THEN NewIdentifierId(next) ELSE next
         IN Outcome("true",
                    [token EXCEPT !.id = info.id, !.expressionId = info.expressionId,
                                  !.value = Null],
                    Store(known, text, info), next1, NoSpan)

\* sscanf(text, "%lf", &value): the number of conversions (-1 for EOF on an
\* empty text) and the numeral converted: an optional sign, digits, an
\* optional point and digits, with at least one digit.
Sscanf(text) ==
    LET IsDigit(c) == c >= Ord("0") /\ c <= Ord("9")
        signed == Len(text) > 0 /\ text[1] \in {Ord("+"), Ord("-")}
        first == IF signed THEN 2 ELSE 1
        RECURSIVE Digits(_)
        Digits(k) == IF k <= Len(text) /\ IsDigit(text[k]) THEN Digits(k + 1) ELSE k
        intEnd == Digits(first)
        fracEnd == IF intEnd <= Len(text) /\ text[intEnd] = Ord(".")
                   THEN Digits(intEnd + 1) ELSE intEnd
        nDigits == (intEnd - first) + (IF fracEnd > intEnd THEN fracEnd - intEnd - 1 ELSE 0)
    IN IF Len(text) = 0 THEN [n |-> -1, value |-> Null]
       ELSE IF nDigits = 0 THEN [n |-> 0, value |-> Null]
       ELSE [n |-> 1, value |-> SubSeq(text, 1, fracEnd - 1)]

\* The rest of ProcessFloatLiteralLexeme, given the result r of sscanf.
FloatOutcome(t1, known, next, r) ==
    IF r.n = 0 THEN Outcome("false", t1, known, next, NoSpan)
    ELSE IF r.n = 1
    THEN Outcome("true", [t1 EXCEPT !.floatValue = r.value], known, next, NoSpan)
    ELSE Outcome("true", t1, known, next, NoSpan)

\* RawTokenizer::ProcessFloatLiteralLexeme
ProcessFloatLiteralLexeme(token, known, next, asserts) ==
    IF asserts /\ token.lexeme.category # kFloatLiteral
    THEN Outcome("assert", token, known, next, NoSpan)
    ELSE FloatOutcome([token EXCEPT !.id = FLOAT_TOKEN,
                                    !.expressionId = FLOAT_FUNCT_TOKEN],
                      known, next, Sscanf(token.lexeme.text))

\* A faulty variant of StringOutcome: the code units decoded before a failure
\* are stored in the token.
StringOutcome_Partial(t1, known, next, r) ==
    Outcome(IF r.ok THEN "true" ELSE "InvalidEscapeSequenceException",
            [t1 EXCEPT !.value = r.data], known, next,
            IF r.ok THEN NoSpan
            ELSE [begin |-> r.escapeSequenceBegin, end |-> r.escapeSequenceEnd])

\* The end of ProcessStringLiteralLexeme, given the result r of the loop.
StringOutcome(t1, known, next, r) ==
    IF r.ok
    THEN Outcome("true", [t1 EXCEPT !.value = r.data], known, next, NoSpan)
    ELSE Outcome("InvalidEscapeSequenceException", t1, known, next,
                 [begin |-> r.escapeSequenceBegin, end |-> r.escapeSequenceEnd])

\* ProcessStringLiteralLexeme from the assignment of token.id on.  A text
\* shorter than two characters makes reserve(size - 2) throw
\* std::length_error.
DecodeLiteral(t1, known, next) ==
    IF Len(t1.lexeme.text) < 2
    THEN Outcome("length_error", t1, known, next, NoSpan)
    ELSE StringOutcome(t1, known, next,
                       DecodeLoop(t1.lexeme.text, 2, Len(t1.lexeme.text), << >>))

\* RawTokenizer::ProcessStringLiteralLexeme
ProcessStringLiteralLexeme(token, known, next, asserts) ==
    IF asserts /\ (\/ token.lexeme.category # kStringLiteral
                   \/ Len(token.lexeme.text) < 2
                   \/ token.lexeme.text[1] # QUOTE
                   \/ token.lexeme.text[Len(token.lexeme.text)] # QUOTE)
    THEN Outcome("assert", token, known, next, NoSpan)
    ELSE DecodeLiteral([token EXCEPT !.id = STRING_LITERAL_TOKEN,
                                     !.expressionId = STRING_LITERAL_TOKEN],
                       known, next)

\* The single-character cases of ProcessOtherLexeme, in code order.
SingleCharSymbols ==
    << <<"!", "EXCLAMATION_TOKEN">>, <<"#", "HASH_TOKEN">>, <<"$", "DOLLAR_TOKEN">>,
       <<"%", "PERCENT_TOKEN">>, <<"&", "AMPERSAND_TOKEN">>, <<"'", "SINGLE_QUOTE_TOKEN">>,
       <<"(", "LEFT_PAREN_TOKEN">>, <<")", "RIGHT_PAREN_TOKEN">>, <<"*", "STAR_TOKEN">>,
       <<"+", "PLUS_TOKEN">>, <<",", "COMMA_TOKEN">>, <<"-", "DASH_TOKEN">>,
       <<".", "PERIOD_TOKEN">>, <<"/", "SLASH_TOKEN">>, <<":", "COLON_TOKEN">>,
       <<";", "SEMI_COLON_TOKEN">>, <<"<", "LEFT_ANGLE_TOKEN">>, <<"=", "EQUALS_TOKEN">>,
       <<">", "RIGHT_ANGLE_TOKEN">>, <<"?", "QUESTION_TOKEN">>, <<"@", "AT_TOKEN">>,
       <<"[", "LEFT_SQUARE_TOKEN">>, <<"\\", "BACK_SLASH_TOKEN">>,
       <<"]", "RIGHT_SQUARE_TOKEN">>, <<"^", "HAT_TOKEN">>,
       <<"BACKQUOTE", "BACK_QUOTE_TOKEN">>, <<"{", "LEFT_CURLY_TOKEN">>,
       <<"|", "BAR_TOKEN">>, <<"}", "RIGHT_CURLY_TOKEN">>, <<"~", "TILDE_TOKEN">> >>

\* A faulty variant of SingleCharTokenId: the case of the right angle
\* bracket assigns the id of the left one.
SingleCharTokenId_Shared(c) ==
    IF c = Ord(">") THEN Tok("LEFT_ANGLE_TOKEN")
    ELSE IF \E k \in 1..Len(SingleCharSymbols) : Ord(SingleCharSymbols[k][1]) = c
    THEN Tok(SingleCharSymbols[CHOOSE k \in 1..Len(SingleCharSymbols) :
                                   Ord(SingleCharSymbols[k][1]) = c][2])
    ELSE NOT_A_TOKEN

\* switch (token.lexeme.text[0]): the token id of a one-character symbol,
\* NOT_A_TOKEN in the default case.
SingleCharTokenId(c) ==
    IF \E k \in 1..Len(SingleCharSymbols) : Ord(SingleCharSymbols[k][1]) = c
    THEN Tok(SingleCharSymbols[CHOOSE k \in 1..Len(SingleCharSymbols) :
                                   Ord(SingleCharSymbols[k][1]) = c][2])
    ELSE NOT_A_TOKEN

\* The else-if chain of ProcessOtherLexeme for a text that is not one
\* character long; NOT_A_TOKEN in the final else.
MultiCharTokenId(text) ==
    IF text = Str(<<"!", "=">>) THEN Tok("REL_NE_TOKEN")
    ELSE IF text = Str(<<"<", "=">>) THEN Tok("REL_LE_TOKEN")
    ELSE IF text = Str(<<">", "=">>) THEN Tok("REL_GE_TOKEN")
    ELSE NOT_A_TOKEN

\* The end of ProcessOtherLexeme, given the token id found for the text.
SymbolOutcome(token, known, next, asserts, tokenId) ==
    IF tokenId = NOT_A_TOKEN
    THEN Outcome(IF asserts THEN "assert" ELSE "false", token, known, next, NoSpan)
    ELSE Outcome("true",
                 [token EXCEPT !.id = tokenId,
                               !.expressionId = GetExpressionId(tokenId),
                               !.value = Null],
                 known, next, NoSpan)

\* RawTokenizer::ProcessOtherLexeme
ProcessOtherLexeme(token, known, next, asserts) ==
    IF asserts /\ (token.lexeme.category # kOther \/ Len(token.lexeme.text) = 0)
    THEN Outcome("assert", token, known, next, NoSpan)
    ELSE SymbolOutcome(token, known, next, asserts,
                       IF Len(token.lexeme.text) = 1
                       THEN SingleCharTokenId(token.lexeme.text[1])
                       ELSE MultiCharTokenId(token.lexeme.text))

\* The case label of GetNextToken's switch a category enters at: 1 .. 4 for
\* the four categories in code order, 5 (default) for any other value.
CaseOf(category) ==
    CASE category = kWord -> 1
      [] category = kFloatLiteral -> 2
      [] category = kStringLiteral -> 3
      [] category = kOther -> 4
      [] OTHER -> 5

\* The case label control reaches when the Process...Lexeme call of case k
\* returns false: the switch has no break, so it is the next label.
NextCase(k) == k + 1

\* The body of GetNextToken's switch from case label k on; Fallthrough is
\* what follows the Process...Lexeme call of case k, given its outcome r.
RECURSIVE Switch(_, _, _, _, _)
RECURSIVE Fallthrough(_, _, _)
Switch(k, token, known, next, asserts) ==
    CASE k = 1 -> Fallthrough(k, asserts, ProcessWordLexeme(token, known, next, asserts))
      [] k = 2 -> Fallthrough(k, asserts,
                              ProcessFloatLiteralLexeme(token, known, next, asserts))
      [] k = 3 -> Fallthrough(k, asserts,
                              ProcessStringLiteralLexeme(token, known, next, asserts))
      [] k = 4 -> Fallthrough(k, asserts, ProcessOtherLexeme(token, known, next, asserts))
      [] OTHER -> Outcome(IF asserts THEN "assert" ELSE "true", token, known, next,
                          NoSpan)

Fallthrough(k, asserts, r) ==
    IF r.out = "false"
    THEN Switch(NextCase(k), r.token, r.known, r.next, asserts)
    ELSE r

\* The Process...Lexeme call of case label k (1 .. 4).
ProcessCase(k, token, known, next, asserts) ==
    CASE k = 1 -> ProcessWordLexeme(token, known, next, asserts)
      [] k = 2 -> ProcessFloatLiteralLexeme(token, known, next, asserts)
      [] k = 3 -> ProcessStringLiteralLexeme(token, known, next, asserts)
      [] k = 4 -> ProcessOtherLexeme(token, known, next, asserts)

\* The case labels whose Process...Lexeme routine the switch enters, in
\* order, when control reaches label k; EnteredAfter is what follows the call
\* of case k, given its outcome r.
RECURSIVE Entered(_, _, _, _, _)
RECURSIVE EnteredAfter(_, _, _)
Entered(k, token, known, next, asserts) ==
    IF k \in 1..4
    THEN <<k>> \o EnteredAfter(k, asserts, ProcessCase(k, token, known, next, asserts))
    ELSE << >>

EnteredAfter(k, asserts, r) ==
    IF r.out = "false"
    THEN Entered(NextCase(k), r.token, r.known, r.next, asserts)
    ELSE << >>

(***************************************************************************)
(* The tokenizer as a state machine.                                       *)
(***************************************************************************)
VARIABLES
    asserts,            \* whether the build checks POV_PARSER_ASSERT
    input,              \* the lexemes of the scanner's source, in order
    pos,                \* the scanner's position: the index of the next lexeme
    mKnownWords,        \* the known-word registry
    mNextIdentifierId,  \* the identifier counter
    token,              \* the RawToken object the parser passes to each call
    op,                 \* the last call that delivers tokens
    ret,                \* its outcome: return value, "assert" or exception name
    span,               \* the range given to InvalidEscapeSequenceException
    bookmark,           \* the bookmark the parser holds
    firstSeen,          \* history: the tokens of the new words, in first-seen order
    emitted,            \* history: what GetNextToken last delivered at each position
    replayed,           \* history: whether the last GetNextToken re-read a position
    sText,              \* string decoder: the text of the literal
    sI,                 \* string decoder: the cursor i
    sFrom,              \* string decoder: the cursor when the last iteration began
    sData,              \* string decoder: pValue->data
    sState,             \* string decoder: "loop", "returned" or "thrown"
    sSpan               \* string decoder: the range given to the exception

vars == << asserts, input, pos, mKnownWords, mNextIdentifierId, token, op, ret, span,
           bookmark, firstSeen, emitted, replayed,
           sText, sI, sFrom, sData, sState, sSpan >>
decoderVars == << sText, sI, sFrom, sData, sState, sSpan >>

\* The words, numerals, string literals and symbols of the modelled sources:
\* lexemes as the scanner's contract allows them.
Words ==
    { Str(<<"a","b","s">>), Str(<<"f","o","o">>), Str(<<"b","a","r">>) }
Numerals == { Str(<<"1",".","5">>) }
Literals == { Str(<<"\"","A","\"">>), Str(<<"\"","A","\\","q","\"">>) }
Symbols == { Str(<<"#">>), Str(<<"<","=">>) }

\* What the scanner may deliver: a category and a text.
Alphabet ==
    {[category |-> kWord, text |-> t] : t \in Words}
    \cup {[category |-> kFloatLiteral, text |-> t] : t \in Numerals}
    \cup {[category |-> kStringLiteral, text |-> t] : t \in Literals}
    \cup {[category |-> kOther, text |-> t] : t \in Symbols}

Inputs == UNION {[1..n -> Alphabet] : n \in 0..MaxInput}

\* A RawToken before any call has written to it.
FreshToken ==
    [lexeme |-> Lexeme("none", << >>, 0), id |-> NOT_A_TOKEN,
     expressionId |-> NOT_A_TOKEN, value |-> Null, floatValue |-> Null]

NoBookmark == [kind |-> "none", pos |-> 0]

DecoderIdle ==
    /\ sText = << >>
    /\ sI = 0
    /\ sFrom = 0
    /\ sData = << >>
    /\ sState = "idle"
    /\ sSpan = NoSpan

\* The state after RawTokenizer::RawTokenizer(), before any input is chosen.
Constructed ==
    /\ pos = 1
    /\ mKnownWords = InitialKnownWords
    /\ mNextIdentifierId = InitialNextIdentifierId
    /\ op = "RawTokenizer"
    /\ ret = "none"
    /\ span = NoSpan
    /\ bookmark = NoBookmark
    /\ firstSeen = << >>
    /\ emitted = << >>
    /\ replayed = FALSE

Init ==
    /\ asserts \in BOOLEAN
    /\ input \in Inputs
    /\ token = FreshToken
    /\ Constructed
    /\ DecoderIdle

\* A failed assertion halts the program.
Running == ret # "assert"

\* The payload a returned token carries: the parsed number of a float
\* literal, the code units of a string literal, nothing for any other token.
DecodedValue(t) ==
    IF t.id = FLOAT_TOKEN THEN t.floatValue
    ELSE IF t.id = STRING_LITERAL_TOKEN THEN t.value
    ELSE Null

\* What the parser observes of a GetNextToken call.
Observation(r, t) ==
    IF r = "true"
    THEN [ret |-> r, id |-> t.id, expressionId |-> t.expressionId,
          value |-> DecodedValue(t)]
    ELSE [ret |-> r, id |-> NOT_A_TOKEN, expressionId |-> NOT_A_TOKEN, value |-> Null]

\* mScanner.GetNextLexeme(lexeme): whether a lexeme remains at position p.
HasLexeme(p) == p <= Len(input)

\* Whether a word lexeme's text is seen for the first time and is no word the
\* constructor registered.
IsFirstSight(lx) ==
    /\ lx.category = kWord
    /\ lx.text \notin DOMAIN InitialKnownWords
    /\ \A k \in 1..Len(firstSeen) : firstSeen[k].text # lx.text

\* The state GetNextToken leaves after the lexeme lx, given the outcome r of
\* its switch.
Deliver(lx, r) ==
    /\ pos' = pos + 1
    /\ token' = r.token
    /\ mKnownWords' = r.known
    /\ mNextIdentifierId' = r.next
    /\ ret' = r.out
    /\ span' = r.span
    /\ firstSeen' = IF IsFirstSight(lx) /\ r.out = "true"
                    THEN Append(firstSeen,
                                [text |-> lx.text, id |-> r.token.id,
                                 expressionId |-> r.token.expressionId])
                    ELSE firstSeen
    /\ emitted' = Store(emitted, pos, Observation(r.out, r.token))

\* The lexeme mScanner.GetNextLexeme delivers at position p.
LexemeAt(p) == Lexeme(input[p].category, input[p].text, p)

\* RawTokenizer::GetNextToken(token)
GetNextToken ==
    /\ Running
    /\ op' = "GetNextToken"
    /\ replayed' = (pos \in DOMAIN emitted)
    /\ IF ~HasLexeme(pos)
       THEN /\ ret' = "false"
            /\ emitted' = Store(emitted, pos, Observation("false", token))
            /\ UNCHANGED << pos, mKnownWords, mNextIdentifierId, token, span, firstSeen >>
       ELSE Deliver(LexemeAt(pos),
                    Switch(CaseOf(input[pos].category),
                           [token EXCEPT !.lexeme = LexemeAt(pos)],
                           mKnownWords, mNextIdentifierId, asserts))
    /\ UNCHANGED << asserts, input, bookmark >>
    /\ UNCHANGED decoderVars

\* mScanner.GetNextDirective(lexeme): the position of the next directive
\* marker at or after p, 0 if there is none.
NextDirective(p) ==
    LET marks == {k \in p..Len(input) :
                     input[k].category = kOther /\ input[k].text = Str(<<"#">>)}
    IN IF marks = {} THEN 0 ELSE CHOOSE k \in marks : \A j \in marks : k <= j

\* A faulty variant of GetNextDirective: the value the token held is kept.
GetNextDirective_KeepValue ==
    /\ Running
    /\ op' = "GetNextDirective"
    /\ LET k == NextDirective(pos)
       IN IF k = 0
          THEN /\ ret' = "false"
               /\ pos' = Len(input) + 1
               /\ UNCHANGED token
          ELSE /\ ret' = "true"
               /\ pos' = k + 1
               /\ token' = [token EXCEPT
                              !.lexeme = Lexeme(input[k].category, input[k].text, k),
                              !.id = HASH_TOKEN,
                              !.expressionId = HASH_TOKEN]
    /\ replayed' = FALSE
    /\ UNCHANGED << asserts, input, mKnownWords, mNextIdentifierId, span, bookmark,
                    firstSeen, emitted >>
    /\ UNCHANGED decoderVars

\* RawTokenizer::GetNextDirective(token)
GetNextDirective ==
    /\ Running
    /\ op' = "GetNextDirective"
    /\ LET k == NextDirective(pos)
       IN IF k = 0
          THEN /\ ret' = "false"
               /\ pos' = Len(input) + 1
               /\ UNCHANGED token
          ELSE /\ ret' = "true"
               /\ pos' = k + 1
               /\ token' = [token EXCEPT
                              !.lexeme = Lexeme(input[k].category, input[k].text, k),
                              !.id = HASH_TOKEN,
                              !.expressionId = HASH_TOKEN,
                              !.value = Null]
    /\ replayed' = FALSE
    /\ UNCHANGED << asserts, input, mKnownWords, mNextIdentifierId, span, bookmark,
                    firstSeen, emitted >>
    /\ UNCHANGED decoderVars

\* RawTokenizer::GetHotBookmark()
GetHotBookmark ==
    /\ Running
    /\ bookmark' = [kind |-> "hot", pos |-> pos]
    /\ UNCHANGED << asserts, input, pos, mKnownWords, mNextIdentifierId, token, op, ret,
                    span, firstSeen, emitted, replayed >>
    /\ UNCHANGED decoderVars

\* RawTokenizer::GetColdBookmark()
GetColdBookmark ==
    /\ Running
    /\ bookmark' = [kind |-> "cold", pos |-> pos]
    /\ UNCHANGED << asserts, input, pos, mKnownWords, mNextIdentifierId, token, op, ret,
                    span, firstSeen, emitted, replayed >>
    /\ UNCHANGED decoderVars

\* A faulty variant of GoToHotBookmark: the registry is rolled back to its
\* seeded state.
GoToHotBookmark_Rollback ==
    /\ Running
    /\ bookmark.kind = "hot"
    /\ pos' = bookmark.pos
    /\ mKnownWords' = InitialKnownWords
    /\ UNCHANGED << asserts, input, mNextIdentifierId, token, op, ret,
                    span, bookmark, firstSeen, emitted, replayed >>
    /\ UNCHANGED decoderVars

\* RawTokenizer::GoToBookmark(const HotBookmark&)
GoToHotBookmark ==
    /\ Running
    /\ bookmark.kind = "hot"
    /\ pos' = bookmark.pos
    /\ UNCHANGED << asserts, input, mKnownWords, mNextIdentifierId, token, op, ret,
                    span, bookmark, firstSeen, emitted, replayed >>
    /\ UNCHANGED decoderVars

\* RawTokenizer::GoToBookmark(const ColdBookmark&)
GoToColdBookmark ==
    /\ Running
    /\ bookmark.kind = "cold"
    /\ pos' = bookmark.pos
    /\ UNCHANGED << asserts, input, mKnownWords, mNextIdentifierId, token, op, ret,
                    span, bookmark, firstSeen, emitted, replayed >>
    /\ UNCHANGED decoderVars

Next ==
    \/ GetNextToken
    \/ GetNextDirective
    \/ GetHotBookmark
    \/ GetColdBookmark
    \/ GoToHotBookmark
    \/ GoToColdBookmark

Spec == Init /\ [][Next]_vars

(***************************************************************************)
(* A scanner that breaks its contract: lexemes the classifier has no       *)
(* branch for, next to two it has.                                         *)
(***************************************************************************)
\* A float literal without a digit, a symbol outside ProcessOtherLexeme's
\* cases, and a lexeme whose category is none of the four.
Violations ==
    { [category |-> kFloatLiteral, text |-> Str(<<"+", ".">>)],
      [category |-> kOther, text |-> Str(<<"_">>)],
      [category |-> "kUndefined", text |-> Str(<<"x">>)] }

FaultyAlphabet ==
    Violations
    \cup { [category |-> kWord, text |-> Str(<<"f","o","o">>)],
           [category |-> kOther, text |-> Str(<<"#">>)] }

FaultyInputs == UNION {[1..n -> FaultyAlphabet] : n \in 0..MaxInput}

InitFaulty ==
    /\ asserts \in BOOLEAN
    /\ input \in FaultyInputs
    /\ token = FreshToken
    /\ Constructed
    /\ DecoderIdle

SpecFaulty == InitFaulty /\ [][Next]_vars

(***************************************************************************)
(* The decoding loop of ProcessStringLiteralLexeme, one iteration a step.  *)
(***************************************************************************)
\* The pieces string-literal payloads are assembled from: plain characters,
\* escapes (whole, cut short, or with a bad digit or value), hex digits and
\* the bytes of multi-byte sequences.
Pieces ==
    { Str(<<"\\">>), Str(<<"A">>), Str(<<"q">>), Str(<<"0", "0">>), Str(<<"4", "1">>),
      Str(<<"\\", "a">>), Str(<<"\\", "b">>), Str(<<"\\", "t">>), Str(<<"\\", "n">>),
      Str(<<"\\", "v">>), Str(<<"\\", "f">>), Str(<<"\\", "r">>), Str(<<"\\", "'">>),
      Str(<<"\\", "\"">>), Str(<<"\\", "\\">>), Str(<<"\\", "q">>),
      Str(<<"\\", "u">>), Str(<<"\\", "U">>),
      Str(<<"\\", "u", "0", "0">>), Str(<<"\\", "U", "0", "0", "0", "0">>),
      Str(<<"\\", "u", "0", "0", "4", "1">>), Str(<<"\\", "u", "0", "0", "Z", "Z">>),
      Str(<<"\\", "u", "0", "0", "e", "9">>), Str(<<"\\", "u", "D", "7", "F", "F">>),
      Str(<<"\\", "u", "D", "8", "0", "0">>), Str(<<"\\", "u", "d", "f", "f", "f">>),
      Str(<<"\\", "u", "E", "0", "0", "0">>),
      Str(<<"\\", "U", "0", "0", "0", "0", "4", "1">>),
      Str(<<"\\", "U", "0", "1", "0", "0", "4", "1">>),
      Str(<<"\\", "U", "1", "0", "F", "F", "F", "F">>),
      Str(<<"\\", "U", "1", "1", "0", "0", "0", "0">>),
      Str(<<"\\", "U", "0", "0", "D", "8", "0", "0">>),
      <<195, 169>>, <<195>> }

RECURSIVE Payloads(_)
Payloads(n) ==
    IF n = 0 THEN {<< >>}
    ELSE Payloads(n - 1) \cup {p \o q : p \in Payloads(n - 1), q \in Pieces}

\* The texts of string-literal lexemes: a payload between double quotes.
StringLiterals == {<<QUOTE>> \o p \o <<QUOTE>> : p \in Payloads(MaxPieces)}

\* The state when ProcessStringLiteralLexeme enters its loop, called by
\* GetNextToken on the first lexeme of a constructed tokenizer.
InitString ==
    /\ asserts \in BOOLEAN
    /\ sText \in StringLiterals
    /\ input = <<[category |-> kStringLiteral, text |-> sText]>>
    /\ token = [FreshToken EXCEPT !.lexeme = Lexeme(kStringLiteral, sText, 1),
                                  !.id = STRING_LITERAL_TOKEN,
                                  !.expressionId = STRING_LITERAL_TOKEN]
    /\ Constructed
    /\ sI = 2
    /\ sFrom = 2
    /\ sData = << >>
    /\ sState = "loop"
    /\ sSpan = NoSpan

\* The state an iteration leaves, given its result r.
DecodeApply(r) ==
    /\ sFrom' = sI
    /\ sI' = r.i
    /\ IF r.ok
       THEN /\ sData' = Append(sData, UCS2(r.c))
            /\ UNCHANGED << sState, sSpan, ret, span >>
       ELSE /\ sState' = "thrown"
            /\ sSpan' = [begin |-> r.escapeSequenceBegin, end |-> r.escapeSequenceEnd]
            /\ ret' = "InvalidEscapeSequenceException"
            /\ span' = sSpan'
            /\ UNCHANGED sData

\* One iteration of while (i != payloadEnd).
DecodeStep ==
    /\ sState = "loop"
    /\ sI # Len(sText)
    /\ DecodeApply(DecodeIteration(sText, sI, Len(sText)))
    /\ UNCHANGED << asserts, input, pos, mKnownWords, mNextIdentifierId, token, op,
                    bookmark, firstSeen, emitted, replayed, sText >>

\* The loop's exit: token.value = pValue; return true.
DecodeReturn ==
    /\ sState = "loop"
    /\ sI = Len(sText)
    /\ sState' = "returned"
    /\ token' = [token EXCEPT !.value = sData]
    /\ ret' = "true"
    /\ UNCHANGED << asserts, input, pos, mKnownWords, mNextIdentifierId, op, span,
                    bookmark, firstSeen, emitted, replayed,
                    sText, sI, sFrom, sData, sSpan >>

NextString ==
    \/ DecodeStep
    \/ DecodeReturn

SpecString == InitString /\ [][NextString]_vars

\* The pieces of the payloads on which the loop's termination is checked: one
\* or two for every branch of an iteration.
FairPieces ==
    { Str(<<"\\">>), Str(<<"A">>), Str(<<"4", "1">>),
      Str(<<"\\", "n">>), Str(<<"\\", "q">>), Str(<<"\\", "u">>),
      Str(<<"\\", "u", "0", "0", "4", "1">>), Str(<<"\\", "u", "D", "8", "0", "0">>),
      Str(<<"\\", "U", "0", "1", "0", "0", "4", "1">>),
      Str(<<"\\", "U", "1", "1", "0", "0", "0", "0">>),
      <<195, 169>>, <<195>> }

RECURSIVE FairPayloads(_)
FairPayloads(n) ==
    IF n = 0 THEN {<< >>}
    ELSE FairPayloads(n - 1) \cup {p \o q : p \in FairPayloads(n - 1), q \in FairPieces}

FairStringLiterals == {<<QUOTE>> \o p \o <<QUOTE>> : p \in FairPayloads(MaxPieces)}

InitStringFair ==
    /\ InitString
    /\ sText \in FairStringLiterals

\* The decoder as it runs: the loop is straight-line code of one thread, so a
\* step that is possible is eventually taken.  Every step changes the cursor
\* or the loop's state.
SpecStringFair ==
    InitStringFair /\ [][NextString]_vars /\ WF_<<sI, sState>>(NextString)

(***************************************************************************)
(* ProcessOtherLexeme applied to a symbol text.                            *)
(***************************************************************************)
\* The characters symbol texts are drawn from: the printable ASCII
\* punctuation, a letter, a digit and the space.
SymbolChars ==
    {c \in Ord(" ")..Ord("~") : ~IsAlpha(c) /\ ~(c >= Ord("0") /\ c <= Ord("9"))}
    \cup {Ord("a"), Ord("7")}

SymbolTexts == UNION {[1..n -> SymbolChars] : n \in 0..MaxSymbolLen}

InitOther ==
    /\ asserts \in BOOLEAN
    /\ \E t \in SymbolTexts :
          /\ input = <<[category |-> kOther, text |-> t]>>
          /\ token = [FreshToken EXCEPT !.lexeme = Lexeme(kOther, t, 1)]
    /\ Constructed
    /\ DecoderIdle

\* The state the call leaves, given its outcome r.
SymbolApply(r) ==
    /\ token' = r.token
    /\ ret' = r.out

\* The call ProcessOtherLexeme(token)
SymbolStep ==
    /\ op = "RawTokenizer"
    /\ op' = "ProcessOtherLexeme"
    /\ SymbolApply(ProcessOtherLexeme(token, mKnownWords, mNextIdentifierId, asserts))
    /\ UNCHANGED << asserts, input, pos, mKnownWords, mNextIdentifierId, span, bookmark,
                    firstSeen, emitted, replayed >>
    /\ UNCHANGED decoderVars

NextOther == SymbolStep

SpecOther == InitOther /\ [][NextOther]_vars

(***************************************************************************)
(* Properties of the known-word registry and the identifier counter.       *)
(***************************************************************************)
\* The (id, expressionId) pair of a token.
Pair(t) == [id |-> t.id, expressionId |-> t.expressionId]

\* Whether the last call was a GetNextToken that returned a word token.
WordReturned ==
    /\ op = "GetNextToken"
    /\ ret = "true"
    /\ token.lexeme.category = kWord

\* C1: in a freshly constructed tokenizer the k-th never-before-seen word
\* (k = 1, 2, ...) that is not in the seeded registry receives the id
\* TOKEN_COUNT + k; the first such word receives TOKEN_COUNT + 1.
C1_KthNewWordId ==
    \A k \in 1..Len(firstSeen) : firstSeen[k].id = TOKEN_COUNT + k

\* C2: a registry entry, once it exists, keeps its (id, expressionId) pair and
\* is never removed, whatever calls are interleaved; every later occurrence of
\* a word yields the pair of its first occurrence, and a word outside the seed
\* list has an id greater than TOKEN_COUNT.
C2_WriteOnceRegistry ==
    /\ \A w \in DOMAIN InitialKnownWords :
          w \in DOMAIN mKnownWords /\ mKnownWords[w] = InitialKnownWords[w]
    /\ \A k \in 1..Len(firstSeen) :
          /\ firstSeen[k].text \in DOMAIN mKnownWords
          /\ mKnownWords[firstSeen[k].text] = Pair(firstSeen[k])
          /\ firstSeen[k].id > TOKEN_COUNT
    /\ WordReturned =>
          IF token.lexeme.text \in DOMAIN InitialKnownWords
          THEN Pair(token) = InitialKnownWords[token.lexeme.text]
          ELSE \E k \in 1..Len(firstSeen) :
                  /\ firstSeen[k].text = token.lexeme.text
                  /\ Pair(firstSeen[k]) = Pair(token)

\* A later occurrence of a word outside the seed list has been returned: the
\* first two lexemes are the same word and both were read by GetNextToken.
C2_Witness ==
    /\ WordReturned
    /\ token.lexeme.position = 2
    /\ input[1] = input[2]
    /\ 1 \in DOMAIN emitted
    /\ token.id > TOKEN_COUNT

\* C3: of two distinct words absent from the registry, the one first seen
\* earlier has the smaller id; no two words share an identifier id, and no
\* allocated id is handed out again (each lies at or below the counter, which
\* the next allocation exceeds), whatever lexemes, directives or bookmark
\* rewinds occur in between.
C3_IncreasingDistinctIds ==
    /\ \A j, k \in 1..Len(firstSeen) : j < k => firstSeen[j].id < firstSeen[k].id
    /\ \A v, w \in DOMAIN mKnownWords :
          (v # w /\ mKnownWords[v].id > TOKEN_COUNT)
             => mKnownWords[v].id # mKnownWords[w].id
    /\ \A k \in 1..Len(firstSeen) : firstSeen[k].id <= mNextIdentifierId

\* Two new words have been given ids and a position was read again after a
\* rewind.
C3_Witness ==
    /\ Len(firstSeen) = 2
    /\ replayed
    /\ firstSeen[1].id < firstSeen[2].id

\* Whether the constructor's two tests let a table entry into the registry.
SeedEligible(name) == IsAlpha(name[1]) /\ \A k \in 1..Len(name) : name[k] # Ord(" ")

\* The names and the number of the reserved-word table entries.
TableNames == {Reserved_Words[k].Token_Name : k \in 1..Len(Reserved_Words)}
TableNumber(name) ==
    Reserved_Words[CHOOSE k \in 1..Len(Reserved_Words) :
                      Reserved_Words[k].Token_Name = name].Token_Number

\* C4: for every table entry that starts with a letter and contains no
\* space, GetNextToken on a word lexeme of that text, at any point, returns
\* the entry's reserved id (at most TOKEN_COUNT) with the banded
\* expressionId and leaves the registry and the identifier counter as they
\* were; the other table entries are not in the registry after construction.
C4_ReservedWords ==
    /\ [](op = "RawTokenizer" =>
             \A n \in TableNames : ~SeedEligible(n) => n \notin DOMAIN mKnownWords)
    /\ [][(/\ GetNextToken
           /\ HasLexeme(pos)
           /\ input[pos].category = kWord
           /\ input[pos].text \in TableNames
           /\ SeedEligible(input[pos].text))
          => /\ ret' = "true"
             /\ token'.id = TableNumber(input[pos].text)
             /\ token'.id <= TOKEN_COUNT
             /\ token'.expressionId = GetExpressionId(token'.id)
             /\ mNextIdentifierId' = mNextIdentifierId
             /\ mKnownWords' = mKnownWords]_vars

\* The reserved word abs has been returned after a new identifier was
\* allocated.
C4_Witness ==
    /\ WordReturned
    /\ token.lexeme.text = Str(<<"a","b","s">>)
    /\ token.id = Tok("ABS_TOKEN")
    /\ token.expressionId = FLOAT_FUNCT_TOKEN
    /\ Len(firstSeen) = 1
    /\ token.lexeme.position = 2

\* C5: after a hot bookmark is captured, tokens are pulled and the bookmark
\* is restored, each GetNextToken call that reads a position again returns
\* the same (id, expressionId, decoded value) as the call that read it
\* before, also for words first seen in between; restoring the bookmark
\* leaves the registry and the identifier counter as they are.
C5_BookmarkRoundTrip ==
    [][/\ (GetNextToken /\ pos \in DOMAIN emitted)
            => Observation(ret', token') = emitted[pos]
       /\ (bookmark.kind = "hot" /\ pos' = bookmark.pos /\ UNCHANGED << op, token >>)
            => (mKnownWords' = mKnownWords /\ mNextIdentifierId' = mNextIdentifierId)
      ]_vars

\* A word first seen after the capture of a hot bookmark has been read again
\* after the restore.
C5_Witness ==
    /\ WordReturned
    /\ replayed
    /\ bookmark.kind = "hot"
    /\ bookmark.pos <= token.lexeme.position
    /\ token.id > TOKEN_COUNT
    /\ mNextIdentifierId > InitialNextIdentifierId

(***************************************************************************)
(* Properties of GetNextToken's dispatch.                                  *)
(***************************************************************************)
\* The ids prescribed for a lexeme of each category.
Prescribed(lx, t, known) ==
    CASE lx.category = kWord ->
            lx.text \in DOMAIN known /\ Pair(t) = known[lx.text]
      [] lx.category = kFloatLiteral ->
            t.id = FLOAT_TOKEN /\ t.expressionId = FLOAT_FUNCT_TOKEN
      [] lx.category = kStringLiteral ->
            t.id = STRING_LITERAL_TOKEN /\ t.expressionId = STRING_LITERAL_TOKEN
      [] lx.category = kOther ->
            /\ t.id = (IF Len(lx.text) = 1 THEN SingleCharTokenId(lx.text[1])
                       ELSE MultiCharTokenId(lx.text))
            /\ t.id # NOT_A_TOKEN
            /\ t.expressionId = GetExpressionId(t.id)
      [] OTHER -> FALSE

\* C6: GetNextToken returns false exactly when the scanner reports the end of
\* the input; whenever the scanner delivers a lexeme and neither an exception
\* nor an assertion is raised, it returns true with id and expressionId as
\* prescribed for the lexeme's own category.
C6_OwnCategory ==
    [][GetNextToken =>
          /\ (ret' = "false") <=> ~HasLexeme(pos)
          /\ (HasLexeme(pos) /\ ret' \in {"true", "false"})
                => (ret' = "true" /\ Prescribed(input[pos], token', mKnownWords'))
      ]_vars

(***************************************************************************)
(* Properties of the string-literal decoder.                               *)
(***************************************************************************)
\* The index of the closing quote: payloadEnd.
PayloadEnd == Len(sText)

\* Whether the next iteration starts at a backslash, and whether a character
\* of the payload follows that backslash.
AtBackslash == sState = "loop" /\ sI # PayloadEnd /\ sText[sI] = BACKSLASH
HasLetter == PayloadEnd - sI >= 2

\* Whether the next iteration starts at a \u or \U escape.
AtUCSEscape == AtBackslash /\ HasLetter /\ sText[sI + 1] \in {Ord("u"), Ord("U")}

\* The number of digits the escape letter at index k asks for.
DigitsAsked(k) == IF sText[k] = Ord("u") THEN 4 ELSE 6

IsHexChar(c) ==
    c \in (Ord("0")..Ord("9")) \cup (Ord("A")..Ord("F")) \cup (Ord("a")..Ord("f"))

\* The number spelled by the n characters of sText from index from on.
RECURSIVE HexNumber(_, _)
HexNumber(from, n) ==
    IF n = 0 THEN 0
    ELSE HexNumber(from, n - 1) * 16 + HexDigitToInt(sText[from + n - 1])

\* Whether the \u or \U escape at the cursor is followed by enough
\* characters, all hex digits, spelling a scalar value.
ValidUCSEscape ==
    /\ PayloadEnd - (sI + 2) >= DigitsAsked(sI + 1)
    /\ \A k \in (sI + 2)..(sI + 1 + DigitsAsked(sI + 1)) : IsHexChar(sText[k])
    /\ HexNumber(sI + 2, DigitsAsked(sI + 1)) <= MaxScalarValue
    /\ HexNumber(sI + 2, DigitsAsked(sI + 1)) \notin SurrogateFirst..SurrogateLast

\* Whether the step appended exactly one code unit.
OneUnitAppended == Len(sData') = Len(sData) + 1 /\ SubSeq(sData', 1, Len(sData)) = sData

Thrown == sState = "thrown" /\ ret = "InvalidEscapeSequenceException"

\* C7: an escape \u (N = 4) or \U (N = 6) decodes successfully if and only
\* if at least N payload characters follow the letter, the next N are hex
\* digits and the value is at most 0x10FFFF and outside 0xD800..0xDFFF; on
\* success the cursor advances by 2 + N from the backslash and one code unit
\* is appended; in every other case the literal fails with
\* InvalidEscapeSequenceException.
C7_UCSEscape ==
    [][(DecodeStep /\ AtUCSEscape) =>
          IF ValidUCSEscape
          THEN /\ sState' = "loop"
               /\ sI' = sI + 2 + DigitsAsked(sI + 1)
               /\ OneUnitAppended
          ELSE Thrown'
      ]_vars

\* The escape \u0041 at the start of a payload has been decoded.
C7_Witness ==
    /\ sState = "loop"
    /\ Len(sText) >= 8
    /\ SubSeq(sText, 2, 7) = Str(<<"\\", "u", "0", "0", "4", "1">>)
    /\ sFrom = 2
    /\ sI = 8
    /\ sData = <<Ord("A")>>

\* C8 as stated: when decoding fails on an escape, the reported span starts
\* at the escape's backslash, ends at the cursor position at the moment of
\* failure, and never extends past the end of the payload.
C8_SpanEndsAtCursor ==
    sState = "thrown" =>
        /\ sSpan.begin = sFrom
        /\ sText[sSpan.begin] = BACKSLASH
        /\ sSpan.end = sI
        /\ sSpan.end <= PayloadEnd

\* Where the span of a failed escape starting at index b ends.
SpanEnd(b) ==
    IF PayloadEnd - b < 2 THEN PayloadEnd
    ELSE IF sText[b + 1] \in {Ord("u"), Ord("U")}
    THEN IF PayloadEnd - (b + 2) < DigitsAsked(b + 1) THEN PayloadEnd
         ELSE b + 2 + DigitsAsked(b + 1)
    ELSE b + 2

\* C8, amended: when decoding fails on an escape, the reported span starts at
\* the escape's backslash and covers the whole escape: it ends two characters
\* after the backslash for an unknown escape letter, 2 + N characters after
\* it for a \u or \U followed by at least N payload characters, and at the
\* end of the payload for a backslash that is the last payload character or a
\* \u or \U followed by fewer than N characters; the cursor lies within the
\* span and the span never extends past the end of the payload.
C8_SpanCoversEscape ==
    sState = "thrown" =>
        /\ sSpan.begin = sFrom
        /\ sText[sSpan.begin] = BACKSLASH
        /\ sSpan.end = SpanEnd(sFrom)
        /\ sSpan.begin <= sI
        /\ sI <= sSpan.end
        /\ sSpan.end <= PayloadEnd
        /\ span = sSpan

\* Decoding has failed with the cursor before the end of the span and the
\* span ending before the end of the payload.
C8_Witness ==
    /\ Thrown
    /\ sI < sSpan.end
    /\ sSpan.end < PayloadEnd

\* The two-character escapes: the letter and the code unit it stands for.
TwoCharEscapes ==
    { <<Ord("a"), 7>>, <<Ord("b"), 8>>, <<Ord("t"), 9>>, <<Ord("n"), 10>>,
      <<Ord("v"), 11>>, <<Ord("f"), 12>>, <<Ord("r"), 13>>,
      <<Ord("'"), Ord("'")>>, <<QUOTE, QUOTE>>, <<BACKSLASH, BACKSLASH>> }

\* Whether the text from the cursor on starts with the given characters,
\* inside the payload.
StartsWith(chars) ==
    /\ sState = "loop"
    /\ sI + Len(chars) <= PayloadEnd
    /\ SubSeq(sText, sI, sI + Len(chars) - 1) = Str(chars)

\* C9: each two-character escape \a \b \t \n \v \f \r \' \" \\ appends
\* exactly its one code unit and advances the cursor by 2; \u0041 and
\* \U000041 each append the code unit of the unescaped character A; a
\* backslash followed by any other character, or one that is the last
\* payload character, fails the literal.
C9_TwoCharEscapes ==
    [][DecodeStep =>
          /\ (AtBackslash /\ HasLetter) =>
                /\ \A e \in TwoCharEscapes :
                      sText[sI + 1] = e[1] =>
                          /\ sState' = "loop"
                          /\ sData' = Append(sData, e[2])
                          /\ sI' = sI + 2
                /\ (sText[sI + 1] \notin {e[1] : e \in TwoCharEscapes}
                                            \cup {Ord("u"), Ord("U")})
                      => Thrown' /\ sData' = sData
          /\ (AtBackslash /\ ~HasLetter) => Thrown' /\ sData' = sData
          /\ (\/ StartsWith(<<"\\", "u", "0", "0", "4", "1">>)
              \/ StartsWith(<<"\\", "U", "0", "0", "0", "0", "4", "1">>)
              \/ StartsWith(<<"A">>))
                => sState' = "loop" /\ sData' = Append(sData, Ord("A"))
      ]_vars

\* The escape \n at the start of a payload has been decoded.
C9_Witness ==
    /\ sState = "loop"
    /\ Len(sText) >= 4
    /\ SubSeq(sText, 2, 3) = Str(<<"\\", "n">>)
    /\ sFrom = 2
    /\ sI = 4
    /\ sData = <<10>>

(***************************************************************************)
(* Properties of the symbol mapping.                                       *)
(***************************************************************************)
\* The printable ASCII punctuation without the double quote and the
\* underscore.
Punctuation ==
    {c \in Ord("!")..Ord("~") :
        /\ ~IsAlpha(c)
        /\ ~(c >= Ord("0") /\ c <= Ord("9"))
        /\ c # QUOTE
        /\ c # Ord("_")}

\* The two-character operators and their token ids.
Operators ==
    { <<Str(<<"!", "=">>), Tok("REL_NE_TOKEN")>>,
      <<Str(<<"<", "=">>), Tok("REL_LE_TOKEN")>>,
      <<Str(<<">", "=">>), Tok("REL_GE_TOKEN")>> }

\* C10: ProcessOtherLexeme maps each of the 30 punctuation characters to its
\* own token id, no two sharing one, and exactly the texts "!=", "<=", ">="
\* to REL_NE, REL_LE, REL_GE, each distinct from every single-character id;
\* any other symbol text yields no token.
C10_SymbolMapping ==
    /\ Cardinality(Punctuation) = 30
    /\ op = "ProcessOtherLexeme" =>
          IF Len(token.lexeme.text) = 1 /\ token.lexeme.text[1] \in Punctuation
          THEN /\ ret = "true"
               /\ token.id \in 0..(TOKEN_COUNT - 1)
               /\ token.expressionId = GetExpressionId(token.id)
               /\ \A d \in Punctuation \ {token.lexeme.text[1]} :
                     SingleCharTokenId(d) # token.id
               /\ \A o \in Operators : o[2] # token.id
               /\ token.lexeme.text = Str(<<"+">>) => token.id = Tok("PLUS_TOKEN")
          ELSE IF \E o \in Operators : o[1] = token.lexeme.text
          THEN /\ ret = "true"
               /\ \A o \in Operators : o[1] = token.lexeme.text => token.id = o[2]
               /\ token.expressionId = GetExpressionId(token.id)
               /\ \A d \in Punctuation : SingleCharTokenId(d) # token.id
               /\ \A o \in Operators : o[1] # token.lexeme.text => o[2] # token.id
          ELSE /\ ret \in {"false", "assert"}
               /\ token.id = NOT_A_TOKEN
               /\ token.expressionId = NOT_A_TOKEN
               /\ token.value = Null

\* The text "<=" has been mapped to REL_LE_TOKEN.
C10_Witness ==
    /\ op = "ProcessOtherLexeme"
    /\ ret = "true"
    /\ token.lexeme.text = Str(<<"<", "=">>)
    /\ token.id = Tok("REL_LE_TOKEN")
    /\ token.id # SingleCharTokenId(Ord("<"))
    /\ token.id # SingleCharTokenId(Ord("="))

(***************************************************************************)
(* Properties of GetNextDirective and of the token's value.                *)
(***************************************************************************)
\* C11: whenever GetNextDirective returns true the token has id and
\* expressionId HASH_TOKEN and an empty value, whatever it held before; it
\* returns false exactly when the scanner finds no directive, and then id,
\* expressionId and value of the token are as they were.
C11_DirectiveToken ==
    [][GetNextDirective =>
          /\ (ret' = "false") <=> (NextDirective(pos) = 0)
          /\ ret' \in {"true", "false"}
          /\ ret' = "true" =>
                /\ token'.id = HASH_TOKEN
                /\ token'.expressionId = HASH_TOKEN
                /\ token'.value = Null
          /\ ret' = "false" =>
                /\ Pair(token') = Pair(token)
                /\ token'.value = token.value
      ]_vars

\* GetNextDirective has returned the directive at position 2 in a token that
\* held the payload of the string literal at position 1.
C11_Witness ==
    /\ op = "GetNextDirective"
    /\ ret = "true"
    /\ token.lexeme.position = 2
    /\ token.id = HASH_TOKEN
    /\ token.value = Null
    /\ 1 \in DOMAIN emitted
    /\ emitted[1].ret = "true"
    /\ emitted[1].id = STRING_LITERAL_TOKEN

\* C12: after every successful GetNextToken or GetNextDirective call, on a
\* token object that may be reused, token.value is present exactly when the
\* returned token is a float literal or string literal token.
C12_ValuePresence ==
    (op \in {"GetNextToken", "GetNextDirective"} /\ ret = "true")
        => ((token.value # Null) <=> (token.id \in {FLOAT_TOKEN, STRING_LITERAL_TOKEN}))

(***************************************************************************)
(* Properties of the dispatch under a scanner that breaks its contract.    *)
(***************************************************************************)
\* The routines the GetNextToken call about to be made enters.
EnteredNow ==
    Entered(CaseOf(input[pos].category), [token EXCEPT !.lexeme = LexemeAt(pos)],
            mKnownWords, mNextIdentifierId, asserts)

\* C13: in every GetNextToken call that obtains a lexeme exactly one of the
\* four Process...Lexeme branches executes, the one matching the lexeme's
\* category, also when that branch returns false; no call enters the routine
\* of another category.
C13_OneBranch ==
    [][(GetNextToken /\ HasLexeme(pos)) =>
          /\ input[pos].category \in {kWord, kFloatLiteral, kStringLiteral, kOther}
          /\ EnteredNow = <<CaseOf(input[pos].category)>>
      ]_vars

\* Whether a lexeme breaks the contract between scanner and classifier: a
\* float literal whose parse converts nothing, a symbol that is none of the
\* recognized ones, or an undefined category.
ContractViolation(lx) ==
    \/ lx.category \notin {kWord, kFloatLiteral, kStringLiteral, kOther}
    \/ lx.category = kFloatLiteral /\ Sscanf(lx.text).n = 0
    \/ /\ lx.category = kOther
       /\ ~(Len(lx.text) = 1 /\ lx.text[1] \in Punctuation)
       /\ ~(\E o \in Operators : o[1] = lx.text)

\* C14: a contract violation never results in GetNextToken returning true
\* with a token: the call ends in the assertion outcome; a failed float parse
\* is never returned as a string-literal or symbol token.
C14_ViolationHalts ==
    [][(GetNextToken /\ HasLexeme(pos) /\ ContractViolation(input[pos])) =>
          /\ ret' = "assert"
          /\ ret' # "true"
      ]_vars

(***************************************************************************)
(* Bounds, failure and termination of the string-literal decoder.          *)
(***************************************************************************)
\* C15: while a string literal is decoded the cursor stays between the
\* beginning and the end of the payload, and every character read (the one
\* after a backslash, each hex digit, each plain character) lies strictly
\* before the end of the payload, for every payload.
C15_ReadsInsidePayload ==
    /\ [](2 <= sI /\ sI <= PayloadEnd)
    /\ [][DecodeStep =>
             \A k \in IterationReads(sText, sI, PayloadEnd) : 2 <= k /\ k < PayloadEnd
         ]_vars

\* Decoding has failed on a \u or \U escape that the payload cuts short.
C15_Witness ==
    /\ Thrown
    /\ PayloadEnd - sFrom >= 2
    /\ sText[sFrom + 1] \in {Ord("u"), Ord("U")}
    /\ PayloadEnd - (sFrom + 2) < DigitsAsked(sFrom + 1)
    /\ PayloadEnd - (sFrom + 2) > 0
    /\ sI = sFrom + 2

\* Whether the last call was a GetNextToken that failed on an escape, and the
\* scanner still stands right behind the failed literal.
JustFailed ==
    /\ op = "GetNextToken"
    /\ ret = "InvalidEscapeSequenceException"
    /\ pos = token.lexeme.position + 1

\* C16: when decoding fails with InvalidEscapeSequenceException the literal
\* is abandoned: token.value keeps the value it had before the call, the
\* registry and the identifier counter are unchanged, and the tokenizer stays
\* usable: the next GetNextToken call classifies the lexeme that follows the
\* failed literal.
C16_FailureAbandonsLiteral ==
    [][   /\ (ret' = "InvalidEscapeSequenceException" /\ GetNextToken) =>
                /\ Running'
                /\ input[pos].category = kStringLiteral
                /\ token'.value = token.value
                /\ mKnownWords' = mKnownWords
                /\ mNextIdentifierId' = mNextIdentifierId
                /\ pos' = pos + 1
          /\ (JustFailed /\ HasLexeme(pos) /\ GetNextToken) =>
                /\ token'.lexeme = LexemeAt(token.lexeme.position + 1)
                /\ ret' # "false"
                /\ ret' = "true" => Prescribed(input[pos], token', mKnownWords')
         ]_vars

\* A word has been returned from position 2 after the string literal at
\* position 1, which has code units before its bad escape, failed.
C16_Witness ==
    /\ WordReturned
    /\ token.lexeme.position = 2
    /\ 1 \in DOMAIN emitted
    /\ emitted[1].ret = "InvalidEscapeSequenceException"
    /\ input[1].text = Str(<<"\"", "A", "\\", "q", "\"">>)

(***************************************************************************)
(* Frame and invariants of the registry and the identifier counter.        *)
(***************************************************************************)
\* C17: the registry and the identifier counter change only when
\* GetNextToken processes a word lexeme whose text is not yet registered;
\* float, string and symbol lexemes, known words, GetNextDirective, the
\* capture and the restore of bookmarks leave both unchanged.
C17_RegistryFrame ==
    [][(mKnownWords' # mKnownWords \/ mNextIdentifierId' # mNextIdentifierId) =>
          /\ GetNextToken
          /\ HasLexeme(pos)
          /\ input[pos].category = kWord
          /\ input[pos].text \notin DOMAIN mKnownWords
          /\ DOMAIN mKnownWords' = DOMAIN mKnownWords \cup {input[pos].text}
          /\ \A w \in DOMAIN mKnownWords : mKnownWords'[w] = mKnownWords[w]
      ]_vars

\* A directive has been read and a cold bookmark is held after one new word
\* was registered.
C17_Witness ==
    /\ op = "GetNextDirective"
    /\ ret = "true"
    /\ bookmark.kind = "cold"
    /\ Len(firstSeen) = 1
    /\ mNextIdentifierId = InitialNextIdentifierId + 1
    /\ DOMAIN mKnownWords = DOMAIN InitialKnownWords \cup {firstSeen[1].text}

(***************************************************************************)
(* Narrowing and termination of the string-literal decoder.                *)
(***************************************************************************)
\* The scalar value of the item at the cursor, for an iteration that
\* succeeds: the character itself, the value of a two-character escape, the
\* number a UCS escape spells, or what the multi-byte decoder yields (U+FFFD
\* when it fails).
ScalarAtCursor ==
    IF sText[sI] = BACKSLASH
    THEN IF sText[sI + 1] \in {Ord("u"), Ord("U")}
         THEN HexNumber(sI + 2, DigitsAsked(sI + 1))
         ELSE (CHOOSE e \in TwoCharEscapes : e[1] = sText[sI + 1])[2]
    ELSE IF sText[sI] <= 127 THEN sText[sI]
    ELSE IF DecodeUTF8Sequence(sText, sI, PayloadEnd).ok
    THEN DecodeUTF8Sequence(sText, sI, PayloadEnd).c
    ELSE kReplacementCharacter

\* C18: every successfully decoded scalar value c appends exactly one 16-bit
\* code unit, equal to c mod 2^16, so the output grows by one per decoded
\* item; a \U escape with a value above 0xFFFF (at most 0x10FFFF) is not
\* rejected but truncated: \U010041 yields the code unit of A.
C18_Narrowing ==
    [][DecodeStep =>
          /\ sState' = "loop" =>
                /\ Len(sData') = Len(sData) + 1
                /\ sData' = Append(sData, ScalarAtCursor % 65536)
                /\ sData'[Len(sData')] \in 0..65535
          /\ sState' # "loop" => sData' = sData
          /\ (AtUCSEscape /\ ValidUCSEscape) => sState' = "loop"
          /\ StartsWith(<<"\\", "U", "0", "1", "0", "0", "4", "1">>)
                => sState' = "loop" /\ sData' = Append(sData, Ord("A"))
      ]_vars

\* The escape \U010041 at the start of a payload has been decoded to the code
\* unit of A.
C18_Witness ==
    /\ sState = "loop"
    /\ Len(sText) >= 10
    /\ SubSeq(sText, 2, 9) = Str(<<"\\", "U", "0", "1", "0", "0", "4", "1">>)
    /\ sFrom = 2
    /\ sI = 10
    /\ sData = <<Ord("A")>>

\* The multi-byte sequence at the cursor is malformed.
AtMalformedUTF8 ==
    /\ sText[sI] > 127
    /\ ~DecodeUTF8Sequence(sText, sI, PayloadEnd).ok

\* C19: string decoding terminates: every iteration either raises or moves
\* the cursor forward by at least one position without passing payloadEnd,
\* so the loop ends by returning or raising; a malformed multi-byte sequence
\* raises nothing: it yields U+FFFD and decoding continues behind it.
C19_Termination ==
    /\ <>(sState \in {"returned", "thrown"})
    /\ [][DecodeStep =>
             \/ sState' = "thrown"
             \/ /\ sState' = "loop"
                /\ sI' >= sI + 1
                /\ sI' <= PayloadEnd
                /\ PayloadEnd - sI' < PayloadEnd - sI
       ]_vars
    /\ [][(DecodeStep /\ AtMalformedUTF8) =>
             /\ sState' = "loop"
             /\ sI' > sI
             /\ sData' = Append(sData, kReplacementCharacter)
       ]_vars

\* A literal whose payload is a truncated multi-byte sequence has been
\* decoded to U+FFFD and the loop has returned.
C19_Witness ==
    /\ sState = "returned"
    /\ sText = <<QUOTE, 195, QUOTE>>
    /\ sI = PayloadEnd
    /\ sData = <<kReplacementCharacter>>

(***************************************************************************)
(* The registry and the identifier counter together.                       *)
(***************************************************************************)
\* The registered words whose id lies above TOKEN_COUNT.
Identifiers == {w \in DOMAIN mKnownWords : mKnownWords[w].id > TOKEN_COUNT}

\* C20: after construction and after every completed call, no registry entry
\* holds the id NOT_A_TOKEN; every entry with an id above TOKEN_COUNT has
\* expressionId IDENTIFIER_TOKEN and an id no greater than the identifier
\* counter; the ids above TOKEN_COUNT are pairwise distinct, and there are as
\* many of them as the counter has advanced from its initial value.
C20_RegistryInvariant ==
    /\ \A w \in DOMAIN mKnownWords : mKnownWords[w].id # NOT_A_TOKEN
    /\ \A w \in Identifiers :
          /\ mKnownWords[w].expressionId = IDENTIFIER_TOKEN
          /\ mKnownWords[w].id <= mNextIdentifierId
    /\ \A v, w \in Identifiers : v # w => mKnownWords[v].id # mKnownWords[w].id
    /\ Cardinality(Identifiers) = mNextIdentifierId - InitialNextIdentifierId

\* GetNextToken has just registered a second identifier.
C20_Witness ==
    /\ op = "GetNextToken"
    /\ ret = "true"
    /\ token.expressionId = IDENTIFIER_TOKEN
    /\ Cardinality(Identifiers) = 2
    /\ token.id = mNextIdentifierId
    /\ mNextIdentifierId = InitialNextIdentifierId + 2

=============================================================================
